---------------------------- MODULE Spec2Model ----------------------------
(***************************************************************************)
(* pyrun-jupyter: the command-line front end (cli.py), its two pure        *)
(* helpers parse_params / convert_value, and the example programs, run     *)
(* against the execution session (JupyterRunner) they drive.               *)
(*                                                                         *)
(* Python strings are sequences of one-character strings.  Python values   *)
(* are tagged records: [t |-> "None"], [t |-> "bool", v |-> b],            *)
(* [t |-> "int", v |-> n], [t |-> "float", ...], [t |-> "str", v |-> s],   *)
(* [t |-> "dict", v |-> <<[k |-> key, v |-> value], ...>>] (insertion      *)
(* order, unique keys), [t |-> "list", v |-> <<value, ...>>].              *)
(***************************************************************************)
EXTENDS Integers, Sequences, FiniteSets, TLC

\* ------------------------------------------------------------------------
\* Characters and str methods
\* ------------------------------------------------------------------------

DigitSeq == <<"0", "1", "2", "3", "4", "5", "6", "7", "8", "9">>

Digits == {DigitSeq[i] : i \in 1..Len(DigitSeq)}

DigitVal(c) == (CHOOSE i \in 1..Len(DigitSeq) : DigitSeq[i] = c) - 1

UpperSeq == <<"A", "B", "C", "D", "E", "F", "G", "H", "I", "J", "K", "L", "M",
              "N", "O", "P", "Q", "R", "S", "T", "U", "V", "W", "X", "Y", "Z">>

LowerSeq == <<"a", "b", "c", "d", "e", "f", "g", "h", "i", "j", "k", "l", "m",
              "n", "o", "p", "q", "r", "s", "t", "u", "v", "w", "x", "y", "z">>

\* str.lower() on one character
LowerChar(c) ==
    IF \E i \in 1..Len(UpperSeq) : UpperSeq[i] = c
    THEN LowerSeq[CHOOSE i \in 1..Len(UpperSeq) : UpperSeq[i] = c]
    ELSE c

\* str.lower()
Lower(s) == [i \in 1..Len(s) |-> LowerChar(s[i])]

\* the whitespace str.strip() and int()/float() remove
IsSpace(c) == c \in {" ", "\t", "\n", "\r"}

\* str.strip()
Strip(s) ==
    LET keep == {i \in 1..Len(s) : ~IsSpace(s[i])}
    IN  IF keep = {} THEN <<>>
        ELSE LET lo == CHOOSE i \in keep : \A j \in keep : i <= j
                 hi == CHOOSE i \in keep : \A j \in keep : j <= i
             IN  SubSeq(s, lo, hi)

\* str.startswith(c) / str.endswith(c) for a one-character argument
StartsWith(s, c) == Len(s) >= 1 /\ s[1] = c

EndsWith(s, c) == Len(s) >= 1 /\ s[Len(s)] = c

\* s[1:-1]
Slice1m1(s) == IF Len(s) >= 2 THEN SubSeq(s, 2, Len(s) - 1) ELSE <<>>

\* position of the first c in s at or after i, or 0
FindFrom(s, c, i) ==
    LET hits == {j \in i..Len(s) : s[j] = c}
    IN  IF hits = {} THEN 0 ELSE CHOOSE j \in hits : \A k \in hits : j <= k

RECURSIVE SplitFrom(_, _, _)
SplitFrom(s, c, i) ==
    LET j == FindFrom(s, c, i)
    IN  IF j = 0 THEN <<SubSeq(s, i, Len(s))>>
        ELSE <<SubSeq(s, i, j - 1)>> \o SplitFrom(s, c, j + 1)

\* str.split(c): always at least one piece
Split(s, c) == SplitFrom(s, c, 1)

\* ------------------------------------------------------------------------
\* int(str) and float(str)
\* ------------------------------------------------------------------------

\* digit (["_"] digit)* : the digit groups int() and float() accept
IsDigitPart(s) ==
    /\ Len(s) >= 1
    /\ \A i \in 1..Len(s) : s[i] \in Digits \/ s[i] = "_"
    /\ s[1] # "_" /\ s[Len(s)] # "_"
    /\ \A i \in 1..(Len(s) - 1) : ~(s[i] = "_" /\ s[i + 1] = "_")

RECURSIVE DigitsValue(_)
DigitsValue(s) ==
    IF s = <<>> THEN 0
    ELSE LET c == s[Len(s)]
             rest == DigitsValue(SubSeq(s, 1, Len(s) - 1))
         IN  IF c = "_" THEN rest ELSE rest * 10 + DigitVal(c)

\* the digits of a digit part, underscores removed
RECURSIVE OnlyDigits(_)
OnlyDigits(s) ==
    IF s = <<>> THEN <<>>
    ELSE IF s[1] = "_" THEN OnlyDigits(Tail(s))
         ELSE <<s[1]>> \o OnlyDigits(Tail(s))

HasSign(s) == Len(s) >= 1 /\ s[1] \in {"+", "-"}

Unsigned(s) == IF HasSign(s) THEN Tail(s) ELSE s

SignOf(s) == IF Len(s) >= 1 /\ s[1] = "-" THEN -1 ELSE 1

\* int(value) succeeds
IntOk(value) == IsDigitPart(Unsigned(Strip(value)))

\* int(value), when it succeeds
IntValue(value) ==
    LET s == Strip(value) IN SignOf(s) * DigitsValue(Unsigned(s))

PyNone == [t |-> "None"]
PyBool(b) == [t |-> "bool", v |-> b]
PyInt(n) == [t |-> "int", v |-> n]
PyStr(s) == [t |-> "str", v |-> s]
PyDict(items) == [t |-> "dict", v |-> items]
PyList(items) == [t |-> "list", v |-> items]

\* A finite float is sign * m * 10^e with m >= 0 not a multiple of 10 (m = 0
\* has e = 0); the others are inf, -inf and nan.
PyFloatSpecial(k) == [t |-> "float", kind |-> k, sign |-> 0, m |-> 0, e |-> 0]

RECURSIVE NumDigits(_)
NumDigits(n) == IF n < 10 THEN 1 ELSE 1 + NumDigits(n \div 10)

RECURSIVE LeadingDigits(_)
LeadingDigits(n) == IF n < 1000 THEN n ELSE LeadingDigits(n \div 10)

RECURSIVE Normalise(_, _)
Normalise(m, e) ==
    IF m = 0 THEN <<0, 0>>
    ELSE IF m % 10 = 0 THEN Normalise(m \div 10, e + 1) ELSE <<m, e>>

\* the double nearest sign * m * 10^e, to the precision the model keeps:
\* past the largest double it is inf, below the smallest subnormal it is 0
PyFloat(sign, m, e) ==
    LET n == Normalise(m, e)
        p == NumDigits(n[1]) + n[2]
        lead == LeadingDigits(n[1]) * (IF n[1] < 10 THEN 100 ELSE IF n[1] < 100 THEN 10 ELSE 1)
    IN  IF n[1] # 0 /\ (p > 309 \/ (p = 309 /\ lead >= 180))
        THEN PyFloatSpecial(IF sign < 0 THEN "-inf" ELSE "inf")
        ELSE IF n[1] = 0 \/ p < -323
             THEN [t |-> "float", kind |-> "finite", sign |-> sign, m |-> 0, e |-> 0]
             ELSE [t |-> "float", kind |-> "finite", sign |-> sign, m |-> n[1], e |-> n[2]]

\* the decimal forms float() accepts, sign removed:
\* [digitpart] ["." [digitpart]] [("e" | "E") ["+" | "-"] digitpart]
\* with at least one digit before the exponent
DecimalParts(u) ==
    LET l == Lower(u)
        ePos == FindFrom(l, "e", 1)
        mant == IF ePos = 0 THEN u ELSE SubSeq(u, 1, ePos - 1)
        expo == IF ePos = 0 THEN <<>> ELSE SubSeq(u, ePos + 1, Len(u))
        dot == FindFrom(mant, ".", 1)
        ipart == IF dot = 0 THEN mant ELSE SubSeq(mant, 1, dot - 1)
        fpart == IF dot = 0 THEN <<>> ELSE SubSeq(mant, dot + 1, Len(mant))
    IN  [hasExp |-> ePos # 0, expo |-> expo, hasDot |-> dot # 0,
         ipart |-> ipart, fpart |-> fpart]

IsDecimal(u) ==
    LET d == DecimalParts(u)
    IN  /\ d.ipart = <<>> \/ IsDigitPart(d.ipart)
        /\ d.fpart = <<>> \/ IsDigitPart(d.fpart)
        /\ d.ipart # <<>> \/ d.fpart # <<>>
        /\ d.hasExp => IsDigitPart(Unsigned(d.expo))

FloatWords == {<<"i", "n", "f">>, <<"i", "n", "f", "i", "n", "i", "t", "y">>,
               <<"n", "a", "n">>}

\* float(value) succeeds
FloatOk(value) ==
    LET u == Unsigned(Strip(value))
    IN  Lower(u) \in FloatWords \/ IsDecimal(u)

\* float(value), when it succeeds
FloatValue(value) ==
    LET s == Strip(value)
        u == Unsigned(s)
    IN  IF Lower(u) = <<"n", "a", "n">> THEN PyFloatSpecial("nan")
        ELSE IF Lower(u) \in FloatWords
             THEN PyFloatSpecial(IF SignOf(s) < 0 THEN "-inf" ELSE "inf")
             ELSE LET d == DecimalParts(u)
                      fd == OnlyDigits(d.fpart)
                      m == DigitsValue(OnlyDigits(d.ipart) \o fd)
                      x == IF d.hasExp
                           THEN SignOf(d.expo) * DigitsValue(Unsigned(d.expo))
                           ELSE 0
                  IN  PyFloat(SignOf(s), m, x - Len(fd))

\* ------------------------------------------------------------------------
\* convert_value
\* ------------------------------------------------------------------------

WordNone == <<"n", "o", "n", "e">>
WordNull == <<"n", "u", "l", "l">>
WordTrue == <<"t", "r", "u", "e">>
WordFalse == <<"f", "a", "l", "s", "e">>

convert_value(value) ==
    IF Lower(value) = WordNone \/ Lower(value) = WordNull THEN PyNone
    ELSE IF Lower(value) = WordTrue THEN PyBool(TRUE)
    ELSE IF Lower(value) = WordFalse THEN PyBool(FALSE)
    ELSE IF IntOk(value) THEN PyInt(IntValue(value))
    ELSE IF FloatOk(value) THEN FloatValue(value)
    ELSE IF \/ (StartsWith(value, "\"") /\ EndsWith(value, "\""))
            \/ (StartsWith(value, "'") /\ EndsWith(value, "'"))
         THEN PyStr(Slice1m1(value))
         ELSE PyStr(value)


\* ------------------------------------------------------------------------
\* json.loads, for the texts parse_params hands it (no backslash escapes)
\* ------------------------------------------------------------------------

\* dict item assignment d[k] = v: a new key is appended, an old key keeps its
\* place and takes the new value
DictSet(items, k, v) ==
    IF \E i \in 1..Len(items) : items[i].k = k
    THEN [i \in 1..Len(items) |->
            IF items[i].k = k THEN [k |-> k, v |-> v] ELSE items[i]]
    ELSE Append(items, [k |-> k, v |-> v])

DictKeys(items) == {items[i].k : i \in 1..Len(items)}

DictGet(items, k) == items[CHOOSE i \in 1..Len(items) : items[i].k = k].v

JFail == [ok |-> FALSE, v |-> PyNone, pos |-> 0]

JOk(v, pos) == [ok |-> TRUE, v |-> v, pos |-> pos]

\* the first index at or after i that holds no whitespace (Len(s) + 1 at the end)
SkipWs(s, i) ==
    LET stops == {j \in i..Len(s) : ~IsSpace(s[j])}
    IN  IF stops = {} THEN IF i > Len(s) THEN i ELSE Len(s) + 1
        ELSE CHOOSE j \in stops : \A k \in stops : j <= k

CharAt(s, i) == IF i >= 1 /\ i <= Len(s) THEN s[i] ELSE ""

MatchAt(s, i, w) ==
    /\ i + Len(w) - 1 <= Len(s)
    /\ \A k \in 1..Len(w) : s[i + k - 1] = w[k]

\* the index after the run of digits that starts at i (i itself when none)
DigitRunEnd(s, i) ==
    LET stops == {j \in i..Len(s) : s[j] \notin Digits}
    IN  IF stops = {} THEN IF i > Len(s) THEN i ELSE Len(s) + 1
        ELSE CHOOSE j \in stops : \A k \in stops : j <= k

\* py_scanstring in strict mode, s[i] being the opening quote
ScanString(s, i) ==
    LET j == FindFrom(s, "\"", i + 1)
    IN  IF j = 0 THEN JFail
        ELSE IF \E k \in (i + 1)..(j - 1) : s[k] \in {"\t", "\n", "\r"} THEN JFail
        ELSE JOk(PyStr(SubSeq(s, i + 1, j - 1)), j + 1)

\* NUMBER_RE: (-?(?:0|[1-9]\d*))(\.\d+)?([eE][-+]?\d+)?
\* The match is computed left to right, each step handing on the indices
\* found so far: i0 the first digit, i1 the end of the integer part, i2 the
\* end of the fraction (i1 when there is none), x0 the first exponent digit,
\* i3 the end of the match.
NumberValue(s, sign, i0, i1, i2, x0, i3) ==
    IF i2 = i1 /\ i3 = i2
    THEN JOk(PyInt(sign * DigitsValue(SubSeq(s, i0, i1 - 1))), i3)
    ELSE JOk(PyFloat(sign,
                     DigitsValue(SubSeq(s, i0, i1 - 1) \o SubSeq(s, i1 + 1, i2 - 1)),
                     (IF i3 = i2 THEN 0
                      ELSE (IF CharAt(s, i2 + 1) = "-" THEN -1 ELSE 1)
                           * DigitsValue(SubSeq(s, x0, i3 - 1)))
                     - (IF i2 = i1 THEN 0 ELSE i2 - i1 - 1)),
             i3)

NumberExpDigits(s, sign, i0, i1, i2, x0) ==
    NumberValue(s, sign, i0, i1, i2, x0,
                IF CharAt(s, i2) \in {"e", "E"} /\ DigitRunEnd(s, x0) > x0
                THEN DigitRunEnd(s, x0) ELSE i2)

NumberExp(s, sign, i0, i1, i2) ==
    NumberExpDigits(s, sign, i0, i1, i2,
                    IF CharAt(s, i2 + 1) \in {"+", "-"} THEN i2 + 2 ELSE i2 + 1)

NumberFrac(s, sign, i0, i1) ==
    NumberExp(s, sign, i0, i1,
              IF CharAt(s, i1) = "." /\ DigitRunEnd(s, i1 + 1) > i1 + 1
              THEN DigitRunEnd(s, i1 + 1) ELSE i1)

NumberInt(s, sign, i0) ==
    IF CharAt(s, i0) \notin Digits THEN JFail
    ELSE NumberFrac(s, sign, i0,
                    IF CharAt(s, i0) = "0" THEN i0 + 1 ELSE DigitRunEnd(s, i0))

ScanNumber(s, i) ==
    IF CharAt(s, i) = "-" THEN NumberInt(s, -1, i + 1) ELSE NumberInt(s, 1, i)

RECURSIVE ScanOnce(_, _), ScanMembers(_, _, _), ScanItems(_, _, _)

\* JSONObject's loop, one step after the other: the key, the colon, the
\* value, then "}" or "," and the next key
MemberAgain(s, acc, nxt) ==
    IF CharAt(s, nxt) = "\"" THEN ScanMembers(s, nxt, acc) ELSE JFail

MemberNext(s, acc, after) ==
    IF CharAt(s, after) = "}" THEN JOk(PyDict(acc), after + 1)
    ELSE IF CharAt(s, after) = "," THEN MemberAgain(s, acc, SkipWs(s, after + 1))
    ELSE JFail

MemberValue(s, acc, key, val) ==
    IF ~val.ok THEN JFail
    ELSE MemberNext(s, DictSet(acc, key.v.v, val.v), SkipWs(s, val.pos))

MemberColon(s, acc, key, colon) ==
    IF CharAt(s, colon) # ":" THEN JFail
    ELSE MemberValue(s, acc, key, ScanOnce(s, SkipWs(s, colon + 1)))

MemberKey(s, acc, key) ==
    IF ~key.ok THEN JFail ELSE MemberColon(s, acc, key, SkipWs(s, key.pos))

\* i is at the opening quote of a key
ScanMembers(s, i, acc) == MemberKey(s, acc, ScanString(s, i))

\* JSONArray's loop: the item, then "]" or "," and the next item
ItemNext(s, acc, after) ==
    IF CharAt(s, after) = "]" THEN JOk(PyList(acc), after + 1)
    ELSE IF CharAt(s, after) = "," THEN ScanItems(s, SkipWs(s, after + 1), acc)
    ELSE JFail

ItemValue(s, acc, val) ==
    IF ~val.ok THEN JFail ELSE ItemNext(s, Append(acc, val.v), SkipWs(s, val.pos))

\* i is at the start of an item
ScanItems(s, i, acc) == ItemValue(s, acc, ScanOnce(s, i))

\* "{" was read at i - 1
ScanObject(s, j) ==
    IF CharAt(s, j) = "}" THEN JOk(PyDict(<<>>), j + 1)
    ELSE IF CharAt(s, j) = "\"" THEN ScanMembers(s, j, <<>>)
    ELSE JFail

\* "[" was read at i - 1
ScanArray(s, j) ==
    IF CharAt(s, j) = "]" THEN JOk(PyList(<<>>), j + 1) ELSE ScanItems(s, j, <<>>)

\* the constants the scanner knows besides null, true and false
ScanConstant(s, i) ==
    IF MatchAt(s, i, <<"N", "a", "N">>) THEN JOk(PyFloatSpecial("nan"), i + 3)
    ELSE IF MatchAt(s, i, <<"I", "n", "f", "i", "n", "i", "t", "y">>)
         THEN JOk(PyFloatSpecial("inf"), i + 8)
    ELSE IF MatchAt(s, i, <<"-", "I", "n", "f", "i", "n", "i", "t", "y">>)
         THEN JOk(PyFloatSpecial("-inf"), i + 9)
    ELSE JFail

\* a number if NUMBER_RE matches, else one of the constants
NumberOrConstant(s, i, num) == IF num.ok THEN num ELSE ScanConstant(s, i)

\* the scanner's _scan_once
ScanOnce(s, i) ==
    IF CharAt(s, i) = "" THEN JFail
    ELSE IF CharAt(s, i) = "\"" THEN ScanString(s, i)
    ELSE IF CharAt(s, i) = "{" THEN ScanObject(s, SkipWs(s, i + 1))
    ELSE IF CharAt(s, i) = "[" THEN ScanArray(s, SkipWs(s, i + 1))
    ELSE IF MatchAt(s, i, WordNull) THEN JOk(PyNone, i + 4)
    ELSE IF MatchAt(s, i, WordTrue) THEN JOk(PyBool(TRUE), i + 4)
    ELSE IF MatchAt(s, i, WordFalse) THEN JOk(PyBool(FALSE), i + 5)
    ELSE NumberOrConstant(s, i, ScanNumber(s, i))

\* the value raw_decode found, unless something other than whitespace follows
WholeText(s, r) == IF r.ok /\ SkipWs(s, r.pos) = Len(s) + 1 THEN r ELSE JFail

\* json.loads(s): one value, whitespace around it, nothing after it;
\* ok = FALSE stands for JSONDecodeError
json_loads(s) == WholeText(s, ScanOnce(s, SkipWs(s, 1)))

\* ------------------------------------------------------------------------
\* parse_params
\* ------------------------------------------------------------------------

Returned(v) == [raised |-> "", v |-> v]

Raised(e) == [raised |-> e, v |-> PyNone]

\* the key=value loop over the pieces from index i on
RECURSIVE ParsePairs(_, _, _)
ParsePairs(pieces, i, params) ==
    IF i > Len(pieces) THEN Returned(PyDict(params))
    ELSE LET pair == Strip(pieces[i])
             eq == FindFrom(pair, "=", 1)
             key == Strip(SubSeq(pair, 1, eq - 1))
             value == Strip(SubSeq(pair, eq + 1, Len(pair)))
         IN  IF pair = <<>> THEN ParsePairs(pieces, i + 1, params)
             ELSE IF eq = 0 THEN Raised("ValueError")
             ELSE ParsePairs(pieces, i + 1, DictSet(params, key, convert_value(value)))

\* "Try JSON first": what json.loads returned, or ValueError for the
\* JSONDecodeError it raised
JsonParams(j) == IF j.ok THEN Returned(j.v) ELSE Raised("ValueError")

\* parse_params as it would be if invalid JSON fell back to the key=value loop
parse_params_json_fallback(p) ==
    IF p.t = "None" \/ p.v = <<>> THEN Returned(PyDict(<<>>))
    ELSE LET s == Strip(p.v)
         IN  IF StartsWith(s, "{") /\ EndsWith(s, "}") /\ json_loads(s).ok
             THEN Returned(json_loads(s).v)
             ELSE ParsePairs(Split(s, ","), 1, <<>>)

\* p is PyNone (--params not given) or PyStr(text); the result is
\* Returned(dict) or Raised("ValueError")
parse_params(p) ==
    IF p.t = "None" \/ p.v = <<>> THEN Returned(PyDict(<<>>))
    ELSE LET s == Strip(p.v)
         IN  IF StartsWith(s, "{") /\ EndsWith(s, "}")
             THEN JsonParams(json_loads(s))
             ELSE ParsePairs(Split(s, ","), 1, <<>>)


\* ------------------------------------------------------------------------
\* State
\* ------------------------------------------------------------------------

VARIABLES
    value,       \* convert_value: the argument
    converted,   \* convert_value: what it returned (Pending before the call)
    params_str,  \* parse_params: the argument
    parsed,      \* parse_params: how it ended (Pending before the call)
    inv,         \* number of the program invocation under way (0: none)
    prog,        \* the program invoked: "cli", "basic_usage", ...
    pc,          \* where the program is
    args,        \* cli: the parsed command line
    params,      \* handle_run_file: the mapping parse_params returned
    sessions,    \* every JupyterRunner constructed so far, by identity
    runner,      \* the JupyterRunner of this invocation (0: none)
    corr,        \* the correlator of the run under way
    result,      \* the ExecutionResult of the run under way or last returned
    exc,         \* the exception propagating ("" when none)
    pending,     \* the value of a return statement waiting for __exit__
    out,         \* what the cli has printed, in order (the examples' prints
                 \* decide nothing and are not kept)
    exitCode,    \* <<c>> once main returned c
    stats        \* what this invocation has done so far: sessions constructed,
                 \* contexts created, destroy calls and those that failed, stop
                 \* calls, requests sent and in flight, scopes entered and
                 \* exited, and the first exception start or run raised

pureVars == <<value, converted, params_str, parsed>>

progVars == <<inv, prog, pc, args, params, sessions, runner, corr, result, exc,
              pending, out, exitCode, stats>>

vars == <<value, converted, params_str, parsed, inv, prog, pc, args, params,
          sessions, runner, corr, result, exc, pending, out, exitCode, stats>>

Pending == [t |-> "pending"]

\* ExecutionResult (spec 3): error is "None" until an ErrorResult sets it
EmptyResult ==
    [stdout |-> <<>>, stderr |-> <<>>, hasError |-> FALSE, errorName |-> "None",
     error |-> "None", errorTraceback |-> <<>>, indicator |-> "", sealed |-> FALSE]

\* MessageCorrelator (spec 4.3): state is Idle0, Sent, Busy or Sealed; n counts
\* the inbound messages read for the request
IdleCorr == [state |-> "Idle0", n |-> 0]

NoStats == [sessions |-> 0, creates |-> 0, destroys |-> 0, destroyFailed |-> 0,
            stops |-> 0, sends |-> 0, inflight |-> 0, entered |-> 0, exited |-> 0,
            raised |-> ""]

NoArgs == [command |-> "None", filepath |-> <<>>, params |-> PyNone]

\* the program part of the state while only a pure function is exercised
NoProgram ==
    /\ inv = 0
    /\ prog = ""
    /\ pc = ""
    /\ args = NoArgs
    /\ params = PyNone
    /\ sessions = <<>>
    /\ runner = 0
    /\ corr = IdleCorr
    /\ result = EmptyResult
    /\ exc = ""
    /\ pending = <<>>
    /\ out = <<>>
    /\ exitCode = <<>>
    /\ stats = NoStats

\* all strings over alphabet A of length at most n
StringsUpTo(A, n) == UNION {[1..k -> A] : k \in 0..n}

\* ------------------------------------------------------------------------
\* convert_value applied to every bounded string
\* ------------------------------------------------------------------------

MaxValueLen == 4

ValueAlphabet == {"1", "-", "+", ".", "e", "_", "\"", "'", "a", " "}

ValueWords == {
    <<"n", "o", "n", "e">>, <<"N", "o", "n", "e">>, <<"N", "U", "L", "L">>,
    <<"n", "u", "l", "l">>, <<"t", "r", "u", "e">>, <<"T", "r", "u", "e">>,
    <<"F", "A", "L", "S", "E">>, <<"f", "a", "l", "s", "e">>,
    <<"\"", "T", "r", "u", "e", "\"">>, <<"'", "n", "o", "n", "e", "'">>,
    <<"\"", "1", "0", "0", "\"">>, <<"'", "0", ".", "5", "'">>,
    <<"0", ".", "0", "1">>, <<"1", "0", "0">>, <<"-", "0", "0", "7">>,
    <<"1", "_", "0", "0", "0">>, <<"1", "e", "-", "3">>, <<"2", ".", "5", "E", "2">>,
    <<"i", "n", "f">>, <<"-", "I", "n", "f">>, <<"n", "a", "n">>, <<"N", "a", "N">>,
    <<"I", "n", "f", "i", "n", "i", "t", "y">>, <<"9", "e", "9", "9", "9">>,
    <<"1", "e", "-", "9", "9", "9">>, <<"R", "e", "s", "N", "e", "t", "5", "0">>,
    <<"\"", "a", " ", "b", "\"">>, <<"\"", "a", "'">>, <<"'", "\"", "a", "\"", "'">>,
    <<"t", "r", "u", "e", " ">>, <<" ", "1", "2", " ">>, <<"n", "o", "n", "e", "s">>
}

ValueInputs == StringsUpTo(ValueAlphabet, MaxValueLen) \cup ValueWords

InitConvert ==
    /\ value \in ValueInputs
    /\ converted = Pending
    /\ params_str = PyNone
    /\ parsed = Pending
    /\ NoProgram

ConvertValue ==
    /\ converted = Pending
    /\ converted' = convert_value(value)
    /\ UNCHANGED <<value, params_str, parsed, progVars>>

NextConvert == ConvertValue

SpecConvert == InitConvert /\ [][NextConvert]_vars

\* ------------------------------------------------------------------------
\* parse_params applied to None and to every bounded string
\* ------------------------------------------------------------------------

MaxParamsLen == 4

ParamsAlphabet == {"{", "}", "\"", ":", ",", "=", " ", "1", "a"}

ParamsWords == {
    <<"{", "\"", "a", "\"", ":", "1", "}">>,
    <<"{", "\"", "a", "\"", ":", " ", "1", ",", " ", "\"", "b", "\"", ":", " ", "\"", "x", "\"", "}">>,
    <<"{", "\"", "a", "\"", ":", "1", ",", "\"", "a", "\"", ":", "2", "}">>,
    <<"{", "\"", "a", "\"", ":", "t", "r", "u", "e", "}">>,
    <<"{", "\"", "a", "\"", ":", "n", "u", "l", "l", "}">>,
    <<"{", "\"", "a", "\"", ":", "0", ".", "0", "1", "}">>,
    <<"{", "\"", "a", "\"", ":", "0", "1", "}">>,
    <<"{", "\"", "a", "\"", ":", "{", "}", "}">>,
    <<"{", "\"", "a", "\"", ":", "[", "1", ",", "2", "]", "}">>,
    <<"{", "\"", "a", "\"", ":", "1", ",", "}">>,
    <<"{", "\"", "a", "\"", ":", "1", "}", "{", "}">>,
    <<" ", "{", "\"", "a", "\"", ":", "1", "}", " ">>,
    <<"{", "a", "=", "1", ",", "b", "=", "2", "}">>,
    <<"a", "=", "1", ",", "b", "=", "2">>,
    <<"a", "=", "1", ",", "b", "=", "2", ",", "a", "=", "3">>,
    <<"a", "=", "1", ",", ",", "b", "=", "2", ",">>,
    <<"a", "=", "1", ",", "b">>,
    <<" ", "a", " ", "=", " ", "1", " ", ",", " ", "b", "=", "x", " ">>,
    <<"a", "=", "b", "=", "c">>,
    <<"a", "=", "n", "o", "n", "e", ",", "b", "=", "T", "r", "u", "e">>,
    <<"l", "r", "=", "0", ".", "0", "1", ",", "n", "=", "1", "0", "0">>,
    <<"a", "=", "\"", "1", "\"", ",", "b", "=", "'", "x", "'">>,
    <<"a", "=", "{", "}">>
}

ParamsInputs ==
    {PyNone} \cup {PyStr(s) : s \in StringsUpTo(ParamsAlphabet, MaxParamsLen) \cup ParamsWords}

InitParams ==
    /\ params_str \in ParamsInputs
    /\ parsed = Pending
    /\ value = <<>>
    /\ converted = Pending
    /\ NoProgram

ParseParams ==
    /\ parsed = Pending
    /\ parsed' = parse_params(params_str)
    /\ UNCHANGED <<value, converted, params_str, progVars>>

NextParams == ParseParams

SpecParams == InitParams /\ [][NextParams]_vars


\* ------------------------------------------------------------------------
\* ExecutionSession (JupyterRunner) and what it is built from: spec 4
\* ------------------------------------------------------------------------

\* the local faults of spec 7, all of them PyrunJupyterError
PyrunJupyterErrors == {"ContextCreationError", "ChannelError", "ParameterEncodingError"}

NewSession(owner) == [owner |-> owner, ctx |-> "Uninitialized", chan |-> FALSE]

\* how start() can end: both calls succeed, create fails, or create succeeds
\* and openChannel fails
StartOutcomes == {"ok", "create_failed", "open_failed"}

\* start(): TransportClient.create, then openChannel
SessionStart(s, outcome) ==
    CASE outcome = "create_failed" -> s
      [] outcome = "open_failed" -> [s EXCEPT !.ctx = "Active"]
      [] OTHER -> [s EXCEPT !.ctx = "Active", !.chan = TRUE]

\* what start() raises ("" when it returns)
StartError(outcome) ==
    CASE outcome = "create_failed" -> "ContextCreationError"
      [] outcome = "open_failed" -> "ChannelError"
      [] OTHER -> ""

\* stop(): destroy the context if the session holds one, and forget it
SessionStop(s) ==
    IF s.ctx = "Active" THEN [s EXCEPT !.ctx = "Terminated", !.chan = FALSE] ELSE s

\* what stop() raises when destroy succeeded or failed: a failure is logged
StopError(s, destroyOk) == ""

\* the remote-side effects of one stop() call
StopStats(st, s, destroyOk) ==
    [st EXCEPT !.stops = @ + 1,
               !.destroys = @ + (IF s.ctx = "Active" THEN 1 ELSE 0),
               !.destroyFailed = @ + (IF s.ctx = "Active" /\ ~destroyOk THEN 1 ELSE 0)]

\* ParameterInjector.inject accepts null, boolean, integer, float and string
Encodable(v) == v.t \in {"None", "bool", "int", "float", "str"}

\* what inject raises for the mapping d ("" when it returns)
InjectError(d) ==
    IF \E i \in 1..Len(d.v) : ~Encodable(d.v[i].v) THEN "ParameterEncodingError" ELSE ""

Msg(kind, cid, status, name, text, ename, evalue, tb) ==
    [kind |-> kind, cid |-> cid, status |-> status, name |-> name, text |-> text,
     ename |-> ename, evalue |-> evalue, traceback |-> tb]

Status(cid, s) == Msg("Status", cid, s, "", "", "", "", <<>>)

Stream(cid, name, text) == Msg("StreamOutput", cid, "", name, text, "", "", <<>>)

ErrorResult(cid, ename, evalue, tb) == Msg("ErrorResult", cid, "", "", "", ename, evalue, tb)

\* what the channel may deliver while a request is outstanding
InboundMessages ==
    {Status("mine", "busy"), Status("mine", "idle"),
     Stream("mine", "stdout", "a"), Stream("mine", "stdout", "b"),
     Stream("mine", "stderr", "x"),
     ErrorResult("mine", "NameError", "undefined", <<"tb1", "tb2">>),
     Msg("Reply", "mine", "error", "", "", "", "", <<>>),
     Msg("Unknown", "mine", "", "", "", "", "", <<>>),
     Status("other", "idle"), Stream("other", "stdout", "b"),
     ErrorResult("other", "ValueError", "foreign", <<"tb3">>)}

\* MessageCorrelator.consume: the result after message m
ConsumeResult(c, r, m) ==
    IF m.cid # "mine" \/ c.state \notin {"Sent", "Busy"} THEN r
    ELSE CASE m.kind = "Status" /\ m.status = "idle" /\ c.state = "Busy" ->
                [r EXCEPT !.sealed = TRUE]
           [] m.kind = "StreamOutput" /\ m.name = "stdout" ->
                [r EXCEPT !.stdout = Append(@, m.text)]
           [] m.kind = "StreamOutput" /\ m.name = "stderr" ->
                [r EXCEPT !.stderr = Append(@, m.text)]
           [] m.kind = "ErrorResult" ->
                [r EXCEPT !.hasError = TRUE, !.errorName = m.ename,
                          !.error = m.evalue, !.errorTraceback = m.traceback]
           [] OTHER -> r

\* MessageCorrelator.consume: the correlator after message m
ConsumeCorr(c, m) ==
    [c EXCEPT !.n = @ + 1,
              !.state = IF m.cid # "mine" THEN @
                        ELSE IF m.kind = "Status" /\ m.status = "busy" /\ @ = "Sent"
                             THEN "Busy"
                        ELSE IF m.kind = "Status" /\ m.status = "idle" /\ @ = "Busy"
                             THEN "Sealed"
                        ELSE @]

\* the result run returns when it gives up: deadline elapsed or channel closed
Abandoned(r, why) == [r EXCEPT !.hasError = TRUE, !.indicator = why, !.sealed = TRUE]

\* ExecutionResult.success
Success(r) == ~r.hasError /\ r.indicator = ""

\* ------------------------------------------------------------------------
\* The programs
\* ------------------------------------------------------------------------

MaxInvocations == 2

MaxMsgs == 3

Programs == {"cli", "basic_usage", "run_file_with_params", "stop_twice"}

\* the programs that hold the session in a with statement
ScopedPrograms == {"cli", "run_file_with_params"}

\* position of the last c in s, or 0
RFind(s, c) ==
    LET hits == {j \in 1..Len(s) : s[j] = c}
    IN  IF hits = {} THEN 0 ELSE CHOOSE j \in hits : \A k \in hits : k <= j

\* Path(p).name: the final component
PathName(p) == SubSeq(p, RFind(p, "/") + 1, Len(p))

\* Path(p).suffix: from the last dot of the name, unless the name starts or
\* ends with it
Suffix(p) ==
    LET name == PathName(p)
        i == RFind(name, ".")
    IN  IF 1 < i /\ i < Len(name) THEN SubSeq(name, i, Len(name)) ELSE <<>>

DotPy == <<".", "p", "y">>

\* the files that exist when the command line is read
ExistingFiles == {<<"a", ".", "p", "y">>, <<"a", ".", "t", "x", "t">>, <<".", "p", "y">>,
                  <<"d", "/", "a", ".", "p", "y", ".", "b", "a", "k">>}

\* Path(p).exists()
Exists(p) == p \in ExistingFiles

CliPaths == ExistingFiles \cup {<<"n", ".", "p", "y">>, <<"n", ".", "t", "x", "t">>}

\* the --params values tried: absent, key=value, JSON, and malformed ones
CliParams ==
    {PyNone,
     PyStr(<<" ">>),
     PyStr(<<"a", "=", "1", ",", "b", "=", "x">>),
     PyStr(<<"a", "=", "1", ",", "b">>),
     PyStr(<<"{", "\"", "a", "\"", ":", "1", "}">>),
     PyStr(<<"{", "\"", "a", "\"", ":", "{", "}", "}">>),
     PyStr(<<"{", "a", "=", "1", "}">>)}

\* what parse_args returns, command being None, "run-file" or "run"
CliArgs ==
    {NoArgs, [command |-> "run", filepath |-> <<>>, params |-> PyNone]}
    \cup {[command |-> "run-file", filepath |-> f, params |-> ps] :
            f \in CliPaths, ps \in CliParams}

ToStdout(text) == [fd |-> "stdout", text |-> text]

ToStderr(text) == [fd |-> "stderr", text |-> text]

\* one print per traceback line, in the stored order
TracebackLines(tb) == [i \in 1..Len(tb) |-> ToStderr(<<tb[i]>>)]

\* the state a program starts in: invocation i of program p, with the
\* sessions ss left behind by earlier invocations
Starting(i, p, ss) ==
    /\ inv = i
    /\ prog = p
    /\ pc = "start"
    /\ args = NoArgs
    /\ params = PyNone
    /\ sessions = ss
    /\ runner = 0
    /\ corr = IdleCorr
    /\ result = EmptyResult
    /\ exc = ""
    /\ pending = <<>>
    /\ out = <<>>
    /\ exitCode = <<>>
    /\ stats = NoStats

Init ==
    /\ value = <<>>
    /\ converted = Pending
    /\ params_str = PyNone
    /\ parsed = Pending
    /\ \E p \in Programs : Starting(1, p, <<>>)

Finished == pc \in {"returned", "raised", "sysexit"}

\* main returned and is called again in the same process: nothing but the
\* sessions ever constructed is carried over
NewInvocation ==
    /\ prog = "cli" /\ pc = "returned"
    /\ inv < MaxInvocations
    /\ inv' = inv + 1
    /\ prog' = prog
    /\ pc' = "start"
    /\ args' = NoArgs
    /\ params' = PyNone
    /\ runner' = 0
    /\ corr' = IdleCorr
    /\ result' = EmptyResult
    /\ exc' = ""
    /\ pending' = <<>>
    /\ out' = <<>>
    /\ exitCode' = <<>>
    /\ stats' = NoStats
    /\ parsed' = Pending
    /\ UNCHANGED <<sessions, value, converted, params_str>>

\* main: parse_args exits the process (usage error, --help, --version) or
\* returns a; then the dispatch on a.command
Main(exits, a) ==
    /\ prog = "cli" /\ pc = "start"
    /\ IF exits
       THEN /\ a = NoArgs
            /\ exc' = "SystemExit"
            /\ pc' = "sysexit"
            /\ UNCHANGED <<args, out, exitCode>>
       ELSE /\ args' = a
            /\ exc' = exc
            /\ IF a.command = "None"
               THEN /\ out' = Append(out, ToStdout(<<"usage">>))
                    /\ exitCode' = <<1>>
                    /\ pc' = "returned"
               ELSE /\ pc' = IF a.command = "run-file" THEN "handle_run_file" ELSE "with"
                    /\ UNCHANGED <<out, exitCode>>
    /\ UNCHANGED <<inv, prog, params, sessions, runner, corr, result, pending, stats,
                   pureVars>>

\* the three checks with the params parsed before the file is looked at
RunFileErrorParamsFirst(filepath, r) ==
    IF r.raised # "" THEN <<"Error: Invalid params format: ", r.raised>>
    ELSE IF ~Exists(filepath) THEN <<"Error: File not found: ">> \o filepath
    ELSE IF Suffix(filepath) # DotPy
         THEN <<"Error: Expected .py file, got: ">> \o Suffix(filepath)
    ELSE <<>>

\* handle_run_file's three checks, in order: the message of the first that
\* fails (<<>> when all pass); r is how parse_params(args.params) ends
RunFileError(filepath, r) ==
    IF ~Exists(filepath) THEN <<"Error: File not found: ">> \o filepath
    ELSE IF Suffix(filepath) # DotPy
         THEN <<"Error: Expected .py file, got: ">> \o Suffix(filepath)
    ELSE IF r.raised # "" THEN <<"Error: Invalid params format: ", r.raised>>
    ELSE <<>>

\* handle_run_file up to the with statement
HandleRunFileChecks ==
    /\ prog = "cli" /\ pc = "handle_run_file"
    /\ parsed' = parse_params(args.params)
    /\ IF RunFileError(args.filepath, parsed') # <<>>
       THEN /\ out' = Append(out, ToStderr(RunFileError(args.filepath, parsed')))
            /\ exitCode' = <<1>>
            /\ pc' = "returned"
            /\ params' = params
       ELSE /\ params' = parsed'.v
            /\ pc' = "with"
            /\ UNCHANGED <<out, exitCode>>
    /\ UNCHANGED <<inv, prog, args, sessions, runner, corr, result, exc, pending, stats,
                   value, converted, params_str>>

\* the scope entered on one session kept for the whole process: the first
\* invocation constructs it, a later one starts it again
EnterScopeShared(outcome) ==
    /\ prog \in ScopedPrograms
    /\ pc = IF prog = "cli" THEN "with" ELSE "start"
    /\ sessions' = IF sessions = <<>>
                   THEN <<SessionStart(NewSession(inv), outcome)>>
                   ELSE [sessions EXCEPT ![1] = SessionStart(@, outcome)]
    /\ runner' = 1
    /\ stats' = [stats EXCEPT !.sessions = @ + (IF sessions = <<>> THEN 1 ELSE 0),
                              !.creates = @ + (IF outcome = "create_failed" THEN 0 ELSE 1),
                              !.entered = @ + (IF outcome = "ok" THEN 1 ELSE 0),
                              !.raised = StartError(outcome)]
    /\ exc' = StartError(outcome)
    /\ pc' = IF outcome = "ok" THEN (IF prog = "cli" THEN "call" ELSE "body")
             ELSE IF prog = "cli" THEN "except" ELSE "raised"
    /\ UNCHANGED <<inv, prog, args, params, corr, result, pending, out, exitCode,
                   pureVars>>

\* with JupyterRunner(...) as runner: the session is constructed and entered
\* (start); when start raises, the block and __exit__ are skipped
EnterScope(outcome) ==
    /\ prog \in ScopedPrograms
    /\ pc = IF prog = "cli" THEN "with" ELSE "start"
    /\ sessions' = Append(sessions, SessionStart(NewSession(inv), outcome))
    /\ runner' = Len(sessions) + 1
    /\ stats' = [stats EXCEPT !.sessions = @ + 1,
                              !.creates = @ + (IF outcome = "create_failed" THEN 0 ELSE 1),
                              !.entered = @ + (IF outcome = "ok" THEN 1 ELSE 0),
                              !.raised = StartError(outcome)]
    /\ exc' = StartError(outcome)
    /\ pc' = IF outcome = "ok" THEN (IF prog = "cli" THEN "call" ELSE "body")
             ELSE IF prog = "cli" THEN "except" ELSE "raised"
    /\ UNCHANGED <<inv, prog, args, params, corr, result, pending, out, exitCode,
                   pureVars>>

\* the params of examples/run_file_with_params.py
ExampleParams ==
    PyDict(<<[k |-> <<"l", "e", "a", "r", "n", "i", "n", "g", "_", "r", "a", "t", "e">>,
              v |-> PyFloat(1, 1, -3)],
             [k |-> <<"e", "p", "o", "c", "h", "s">>, v |-> PyInt(10)],
             [k |-> <<"b", "a", "t", "c", "h", "_", "s", "i", "z", "e">>,
              v |-> PyInt(32)],
             [k |-> <<"m", "o", "d", "e", "l", "_", "n", "a", "m", "e">>,
              v |-> PyStr(<<"R", "e", "s", "N", "e", "t", "5", "0">>)]>>)

\* the call is run_file rather than run
IsFileRun ==
    \/ prog = "cli" /\ args.command = "run-file"
    \/ prog = "run_file_with_params"

\* run / run_file up to and including the send: run_file reads the file and,
\* for a non-empty mapping, injects the parameters; run sends the request
RunCall(readOk, sendOk) ==
    /\ pc = "call"
    /\ LET e == IF IsFileRun /\ ~readOk THEN "OSError"
                ELSE IF IsFileRun /\ params.t = "dict" /\ params.v # <<>>
                        /\ InjectError(params) # ""
                     THEN InjectError(params)
                ELSE IF ~sendOk THEN "ChannelError"
                ELSE ""
       IN  IF e # ""
           THEN /\ exc' = e
                /\ pc' = "run_raised"
                /\ stats' = [stats EXCEPT !.raised = e]
                /\ UNCHANGED <<corr, result>>
           ELSE /\ corr' = [state |-> "Sent", n |-> 0]
                /\ result' = EmptyResult
                /\ stats' = [stats EXCEPT !.sends = @ + 1, !.inflight = @ + 1]
                /\ pc' = "running"
                /\ exc' = exc
    /\ UNCHANGED <<inv, prog, args, params, sessions, runner, pending, out, exitCode,
                   pureVars>>

\* run's receive loop: one inbound message is consumed
Receive(m) ==
    /\ pc = "running"
    /\ corr.n < MaxMsgs
    /\ corr' = ConsumeCorr(corr, m)
    /\ result' = ConsumeResult(corr, result, m)
    /\ IF corr'.state = "Sealed"
       THEN /\ pc' = "run_returned"
            /\ stats' = [stats EXCEPT !.inflight = @ - 1]
       ELSE UNCHANGED <<pc, stats>>
    /\ UNCHANGED <<inv, prog, args, params, sessions, runner, exc, pending, out,
                   exitCode, pureVars>>

\* run's receive loop: the deadline elapses before an idle status
Deadline ==
    /\ pc = "running"
    /\ corr' = [corr EXCEPT !.state = "Sealed"]
    /\ result' = Abandoned(result, "timeout")
    /\ stats' = [stats EXCEPT !.inflight = @ - 1]
    /\ pc' = "run_returned"
    /\ UNCHANGED <<inv, prog, args, params, sessions, runner, exc, pending, out,
                   exitCode, pureVars>>

\* run's receive loop: the channel closes; spec 4.3 seals the result with a
\* disconnection indicator, spec 7 raises ChannelError
ChannelClosed(raises) ==
    /\ pc = "running"
    /\ corr' = [corr EXCEPT !.state = "Sealed"]
    /\ sessions' = [sessions EXCEPT ![runner].chan = FALSE]
    /\ stats' = [stats EXCEPT !.inflight = @ - 1,
                              !.raised = IF raises THEN "ChannelError" ELSE @]
    /\ IF raises
       THEN /\ exc' = "ChannelError"
            /\ pc' = "run_raised"
            /\ result' = result
       ELSE /\ result' = Abandoned(result, "disconnected")
            /\ pc' = "run_returned"
            /\ exc' = exc
    /\ UNCHANGED <<inv, prog, args, params, runner, pending, out, exitCode, pureVars>>

\* "Print output" skipped for a result that has an error
PrintOutputUnlessError ==
    /\ prog = "cli" /\ pc = "run_returned"
    /\ out' = IF result.hasError THEN out
              ELSE out
                   \o (IF result.stdout # <<>> THEN <<ToStdout(result.stdout)>> ELSE <<>>)
                   \o (IF result.stderr # <<>> THEN <<ToStderr(result.stderr)>> ELSE <<>>)
    /\ pc' = "check_error"
    /\ UNCHANGED <<inv, prog, args, params, sessions, runner, corr, result, exc,
                   pending, exitCode, stats, pureVars>>

\* handle_run / handle_run_file: "Print output"
PrintOutput ==
    /\ prog = "cli" /\ pc = "run_returned"
    /\ out' = out
              \o (IF result.stdout # <<>> THEN <<ToStdout(result.stdout)>> ELSE <<>>)
              \o (IF result.stderr # <<>> THEN <<ToStderr(result.stderr)>> ELSE <<>>)
    /\ pc' = "check_error"
    /\ UNCHANGED <<inv, prog, args, params, sessions, runner, corr, result, exc,
                   pending, exitCode, stats, pureVars>>

\* the failure decided from the error message instead of has_error
CheckErrorByMessage ==
    /\ prog = "cli" /\ pc = "check_error"
    /\ IF result.error # "None"
       THEN /\ out' = Append(out, ToStderr(<<"\nError: ", result.error>>))
                      \o TracebackLines(result.errorTraceback)
            /\ pending' = <<1>>
       ELSE /\ out' = out
            /\ pending' = <<0>>
    /\ pc' = "leave"
    /\ UNCHANGED <<inv, prog, args, params, sessions, runner, corr, result, exc,
                   exitCode, stats, pureVars>>

\* handle_run / handle_run_file: "Print error info if execution failed" and
\* the return statement that follows
CheckError ==
    /\ prog = "cli" /\ pc = "check_error"
    /\ IF result.hasError
       THEN /\ out' = Append(out, ToStderr(<<"\nError: ", result.error>>))
                      \o TracebackLines(result.errorTraceback)
            /\ pending' = <<1>>
       ELSE /\ out' = out
            /\ pending' = <<0>>
    /\ pc' = "leave"
    /\ UNCHANGED <<inv, prog, args, params, sessions, runner, corr, result, exc,
                   exitCode, stats, pureVars>>

\* a failed destroy raised by stop instead of logged
StopErrorRaises(s, destroyOk) ==
    IF s.ctx = "Active" /\ ~destroyOk THEN "ContextDestroyError" ELSE ""

\* the scope left through a stop that raises when destroy fails
ExitScopeTeardownRaises(destroyOk) ==
    /\ prog \in ScopedPrograms
    /\ pc \in {"leave", "run_raised"}
    /\ LET s == sessions[runner]
           e == IF StopErrorRaises(s, destroyOk) # "" THEN StopErrorRaises(s, destroyOk)
                ELSE exc
       IN  /\ sessions' = [sessions EXCEPT ![runner] = SessionStop(s)]
           /\ stats' = [StopStats(stats, s, destroyOk) EXCEPT !.exited = @ + 1]
           /\ exc' = e
           /\ IF e = ""
              THEN /\ pc' = "returned"
                   /\ exitCode' = IF prog = "cli" THEN pending ELSE exitCode
              ELSE /\ pc' = IF prog = "cli" THEN "except" ELSE "raised"
                   /\ exitCode' = exitCode
    /\ pending' = <<>>
    /\ UNCHANGED <<inv, prog, args, params, runner, corr, result, out, pureVars>>

\* the session stopped by a call at the end of the block instead of by the
\* with statement: an exception leaves the block without it
ExitScopeOnReturnOnly(destroyOk) ==
    /\ prog \in ScopedPrograms
    /\ pc \in {"leave", "run_raised"}
    /\ IF exc = ""
       THEN /\ sessions' = [sessions EXCEPT ![runner] = SessionStop(@)]
            /\ stats' = [StopStats(stats, sessions[runner], destroyOk)
                            EXCEPT !.exited = @ + 1]
            /\ pc' = "returned"
            /\ exitCode' = IF prog = "cli" THEN pending ELSE exitCode
       ELSE /\ pc' = IF prog = "cli" THEN "except" ELSE "raised"
            /\ UNCHANGED <<sessions, stats, exitCode>>
    /\ pending' = <<>>
    /\ UNCHANGED <<inv, prog, args, params, runner, corr, result, exc, out, pureVars>>

\* the with statement is left, by a return or by an exception: __exit__
\* stops the session; then the return completes or the exception goes on
ExitScope(destroyOk) ==
    /\ prog \in ScopedPrograms
    /\ pc \in {"leave", "run_raised"}
    /\ LET s == sessions[runner]
           e == IF StopError(s, destroyOk) # "" THEN StopError(s, destroyOk) ELSE exc
       IN  /\ sessions' = [sessions EXCEPT ![runner] = SessionStop(s)]
           /\ stats' = [StopStats(stats, s, destroyOk) EXCEPT !.exited = @ + 1]
           /\ exc' = e
           /\ IF e = ""
              THEN /\ pc' = "returned"
                   /\ exitCode' = IF prog = "cli" THEN pending ELSE exitCode
              ELSE /\ pc' = IF prog = "cli" THEN "except" ELSE "raised"
                   /\ exitCode' = exitCode
    /\ pending' = <<>>
    /\ UNCHANGED <<inv, prog, args, params, runner, corr, result, out, pureVars>>

\* the except clauses printing the message and falling off the end
ExceptWithoutReturn ==
    /\ prog = "cli" /\ pc = "except"
    /\ out' = Append(out, ToStderr(<<IF exc \in PyrunJupyterErrors THEN "Error: "
                                     ELSE "Unexpected error: ", exc>>))
    /\ exitCode' = <<0>>
    /\ exc' = ""
    /\ pc' = "returned"
    /\ UNCHANGED <<inv, prog, args, params, sessions, runner, corr, result, pending,
                   stats, pureVars>>

\* handle_run / handle_run_file: the two except clauses
Except ==
    /\ prog = "cli" /\ pc = "except"
    /\ out' = Append(out, ToStderr(<<IF exc \in PyrunJupyterErrors THEN "Error: "
                                     ELSE "Unexpected error: ", exc>>))
    /\ exitCode' = <<1>>
    /\ exc' = ""
    /\ pc' = "returned"
    /\ UNCHANGED <<inv, prog, args, params, sessions, runner, corr, result, pending,
                   stats, pureVars>>

\* examples/run_file_with_params.py: the script is written
ExampleWriteScript(writeOk) ==
    /\ prog = "run_file_with_params" /\ pc = "body"
    /\ IF writeOk
       THEN /\ params' = ExampleParams
            /\ pc' = "call"
            /\ UNCHANGED <<exc, stats>>
       ELSE /\ exc' = "OSError"
            /\ stats' = [stats EXCEPT !.raised = "OSError"]
            /\ pc' = "leave"
            /\ params' = params
    /\ UNCHANGED <<inv, prog, args, sessions, runner, corr, result, pending, out,
                   exitCode, pureVars>>

\* examples/run_file_with_params.py: the prints after run_file, and the
\* finally clause
ExamplePrint ==
    /\ prog = "run_file_with_params" /\ pc = "run_returned"
    /\ pc' = "leave"
    /\ UNCHANGED <<inv, prog, args, params, sessions, runner, corr, result, exc,
                   pending, out, exitCode, stats, pureVars>>

\* the runs examples/basic_usage.py makes
BasicRuns == 3

\* examples/basic_usage.py: the runner is constructed and, inside try, started
BasicStart(outcome) ==
    /\ prog = "basic_usage" /\ pc = "start"
    /\ sessions' = Append(sessions, SessionStart(NewSession(inv), outcome))
    /\ runner' = Len(sessions) + 1
    /\ stats' = [stats EXCEPT !.sessions = @ + 1,
                              !.creates = @ + (IF outcome = "create_failed" THEN 0 ELSE 1),
                              !.raised = StartError(outcome)]
    /\ exc' = StartError(outcome)
    /\ pc' = IF outcome = "ok" THEN "call" ELSE "finally"
    /\ UNCHANGED <<inv, prog, args, params, corr, result, pending, out, exitCode,
                   pureVars>>

\* examples/basic_usage.py: what follows each run
BasicAfterRun ==
    /\ prog = "basic_usage" /\ pc = "run_returned"
    /\ pc' = IF stats.sends < BasicRuns THEN "call" ELSE "finally"
    /\ UNCHANGED <<inv, prog, args, params, sessions, runner, corr, result, exc,
                   pending, out, exitCode, stats, pureVars>>

\* stop_kernel called after the last run instead of in a finally clause
BasicFinallyUnlessRaised(destroyOk) ==
    /\ prog = "basic_usage" /\ pc \in {"finally", "run_raised"}
    /\ IF exc = ""
       THEN /\ sessions' = [sessions EXCEPT ![runner] = SessionStop(@)]
            /\ stats' = StopStats(stats, sessions[runner], destroyOk)
            /\ pc' = "returned"
       ELSE /\ pc' = "raised"
            /\ UNCHANGED <<sessions, stats>>
    /\ UNCHANGED <<inv, prog, args, params, runner, corr, result, exc, pending, out,
                   exitCode, pureVars>>

\* examples/basic_usage.py: the finally clause
BasicFinally(destroyOk) ==
    /\ prog = "basic_usage" /\ pc \in {"finally", "run_raised"}
    /\ LET s == sessions[runner]
           e == IF StopError(s, destroyOk) # "" THEN StopError(s, destroyOk) ELSE exc
       IN  /\ sessions' = [sessions EXCEPT ![runner] = SessionStop(s)]
           /\ stats' = StopStats(stats, s, destroyOk)
           /\ exc' = e
           /\ pc' = IF e = "" THEN "returned" ELSE "raised"
    /\ UNCHANGED <<inv, prog, args, params, runner, corr, result, pending, out,
                   exitCode, pureVars>>

\* spec 8, property 9: a session is started, which may fail, then stopped twice
StopTwiceStart(outcome) ==
    /\ prog = "stop_twice" /\ pc = "start"
    /\ sessions' = Append(sessions, SessionStart(NewSession(inv), outcome))
    /\ runner' = Len(sessions) + 1
    /\ stats' = [stats EXCEPT !.sessions = @ + 1,
                              !.creates = @ + (IF outcome = "create_failed" THEN 0 ELSE 1),
                              !.raised = StartError(outcome)]
    /\ pc' = "stop"
    /\ UNCHANGED <<inv, prog, args, params, corr, result, exc, pending, out, exitCode,
                   pureVars>>

StopTwiceStop(destroyOk) ==
    /\ prog = "stop_twice" /\ pc = "stop"
    /\ LET s == sessions[runner]
       IN  /\ sessions' = [sessions EXCEPT ![runner] = SessionStop(s)]
           /\ stats' = StopStats(stats, s, destroyOk)
           /\ exc' = StopError(s, destroyOk)
           /\ pc' = IF StopError(s, destroyOk) # "" THEN "raised"
                    ELSE IF stats.stops = 0 THEN "stop" ELSE "returned"
    /\ UNCHANGED <<inv, prog, args, params, runner, corr, result, pending, out,
                   exitCode, pureVars>>

Next ==
    \/ NewInvocation
    \/ \E exits \in BOOLEAN, a \in CliArgs : Main(exits, a)
    \/ HandleRunFileChecks
    \/ \E outcome \in StartOutcomes : EnterScope(outcome)
    \/ \E readOk \in BOOLEAN, sendOk \in BOOLEAN : RunCall(readOk, sendOk)
    \/ \E m \in InboundMessages : Receive(m)
    \/ Deadline
    \/ \E raises \in BOOLEAN : ChannelClosed(raises)
    \/ PrintOutput
    \/ CheckError
    \/ \E destroyOk \in BOOLEAN : ExitScope(destroyOk)
    \/ Except
    \/ \E writeOk \in BOOLEAN : ExampleWriteScript(writeOk)
    \/ ExamplePrint
    \/ \E outcome \in StartOutcomes : BasicStart(outcome)
    \/ BasicAfterRun
    \/ \E destroyOk \in BOOLEAN : BasicFinally(destroyOk)
    \/ \E outcome \in StartOutcomes : StopTwiceStart(outcome)
    \/ \E destroyOk \in BOOLEAN : StopTwiceStop(destroyOk)

Spec == Init /\ [][Next]_vars


\* ------------------------------------------------------------------------
\* The properties
\* ------------------------------------------------------------------------

\* two Python values are the same value of the same type
SameValue(a, b) == a.t = b.t /\ a = b

\* the non-empty stripped pieces of the comma-separated text s, by position
PairPieces(s) == {i \in 1..Len(Split(s, ",")) : Strip(Split(s, ",")[i]) # <<>>}

PairText(s, i) == Strip(Split(s, ",")[i])

PairKey(s, i) == Strip(SubSeq(PairText(s, i), 1, FindFrom(PairText(s, i), "=", 1) - 1))

PairValue(s, i) ==
    Strip(SubSeq(PairText(s, i), FindFrom(PairText(s, i), "=", 1) + 1, Len(PairText(s, i))))

\* r is the mapping the key=value text s stands for: its keys are the keys of
\* the pieces, each once, and each key has the coerced value of its last piece
IsPairMapping(s, r) ==
    /\ r.raised = "" /\ r.v.t = "dict"
    /\ DictKeys(r.v.v) = {PairKey(s, i) : i \in PairPieces(s)}
    /\ Cardinality(DictKeys(r.v.v)) = Len(r.v.v)
    /\ \A i \in PairPieces(s) :
         (\A j \in PairPieces(s) : j > i => PairKey(s, j) # PairKey(s, i))
            => SameValue(DictGet(r.v.v, PairKey(s, i)), convert_value(PairValue(s, i)))

HasQuotePair(s) == Len(s) >= 2 /\ s[1] = s[Len(s)] /\ s[1] \in {"\"", "'"}

\* C6: convert_value never raises and coerces by a fixed precedence: "none" or
\* "null" in any case give None; "true" and "false" in any case give the
\* boolean; else a string that parses as an integer gives the int; else one
\* that parses as a float gives the float; else the result is the string
\* itself, with exactly one pair of surrounding matching quotes removed when
\* there is one. The result is None, a bool, an int, a float or a str.
C6_ConvertValuePrecedence ==
    converted.t # "pending" =>
        /\ converted.t \in {"None", "bool", "int", "float", "str"}
        /\ SameValue(converted,
              IF Lower(value) \in {WordNone, WordNull} THEN PyNone
              ELSE IF Lower(value) = WordTrue THEN PyBool(TRUE)
              ELSE IF Lower(value) = WordFalse THEN PyBool(FALSE)
              ELSE IF IntOk(value) THEN PyInt(IntValue(value))
              ELSE IF FloatOk(value) THEN FloatValue(value)
              ELSE IF HasQuotePair(value) THEN PyStr(SubSeq(value, 2, Len(value) - 1))
              ELSE PyStr(value))

\* a run or run-file command is under way or has returned
CliCommand == prog = "cli" /\ args.command \in {"run", "run-file"}

CliReturned == CliCommand /\ pc = "returned"

FileMissing == args.command = "run-file" /\ ~Exists(args.filepath)

NotPython == args.command = "run-file" /\ Suffix(args.filepath) # DotPy

BadParams == args.command = "run-file" /\ parse_params(args.params).raised # ""

\* the execution failed in one of the ways spec 6 lists
FailedExecution ==
    \/ FileMissing
    \/ NotPython
    \/ BadParams
    \/ stats.raised # ""
    \/ result.sealed /\ result.hasError

\* C1: a run or run-file command returns exit code 0 on success and 1 on any
\* failure: file not found, bad params, an exception raised while starting,
\* running or leaving the scope, or a result with has_error set. No other
\* exit code is produced, and 0 is returned only for a run that returned a
\* result without error.
C1_ExitCodes ==
    /\ prog = "cli" => exitCode \in {<<>>, <<0>>, <<1>>}
    /\ CliReturned => exitCode = IF FailedExecution THEN <<1>> ELSE <<0>>
    /\ CliReturned /\ exitCode = <<0>> =>
          /\ result.sealed /\ Success(result)
          /\ stats.sends = 1 /\ stats.raised = ""

\* a run-file command printed remote output and returned 0
C1_SuccessReturned ==
    /\ CliReturned /\ args.command = "run-file"
    /\ exitCode = <<0>>
    /\ result.stdout # <<>>

\* the message handle_run_file prints for the first check that fails
FirstFailure ==
    IF FileMissing THEN <<"Error: File not found: ">> \o args.filepath
    ELSE IF NotPython THEN <<"Error: Expected .py file, got: ">> \o Suffix(args.filepath)
    ELSE <<"Error: Invalid params format: ", "ValueError">>

\* C8: handle_run_file checks that the file exists, then that its suffix is
\* ".py", then that the params parse; when a check fails it returns 1 at once,
\* having printed the message of the first failing check, and no session is
\* constructed, no context acquired and no request sent. A session exists
\* only after all three checks passed.
C8_ValidationFirst ==
    prog = "cli" /\ args.command = "run-file" =>
        /\ (FileMissing \/ NotPython \/ BadParams) =>
              /\ pc \in {"handle_run_file", "returned"}
              /\ stats = NoStats /\ runner = 0
              /\ \A i \in 1..Len(sessions) : sessions[i].owner # inv
              /\ pc = "returned" => exitCode = <<1>> /\ out = <<ToStderr(FirstFailure)>>
        /\ pc = "handle_run_file" => stats = NoStats /\ runner = 0 /\ out = <<>>

\* a missing file given with params that do not parse: the file is reported
C8_MissingFileReported ==
    /\ CliReturned /\ FileMissing /\ BadParams
    /\ exitCode = <<1>>
    /\ out = <<ToStderr(<<"Error: File not found: ">> \o args.filepath)>>

\* what the handler prints for the streams of result r
StreamsOutput(r) ==
    (IF r.stdout # <<>> THEN <<[fd |-> "stdout", text |-> r.stdout]>> ELSE <<>>)
    \o (IF r.stderr # <<>> THEN <<[fd |-> "stderr", text |-> r.stderr]>> ELSE <<>>)

\* what the handler prints for the error of result r
ErrorOutput(r) ==
    IF r.hasError
    THEN <<[fd |-> "stderr", text |-> <<"\nError: ", r.error>>]>>
         \o [i \in 1..Len(r.errorTraceback) |->
                [fd |-> "stderr", text |-> <<r.errorTraceback[i]>>]]
    ELSE <<>>

\* what the except clauses print for exception e
ExceptionOutput(e) ==
    <<[fd |-> "stderr",
       text |-> <<IF e \in {"ContextCreationError", "ChannelError", "ParameterEncodingError"}
                  THEN "Error: " ELSE "Unexpected error: ", e>>]>>

\* C10: when run / run_file returned a result, the handler has printed, before
\* the exit code is decided, the whole stdout (if non-empty) to standard
\* output, then the whole stderr (if non-empty) to standard error, then, only
\* if has_error is set, the error message and the traceback lines in their
\* stored order; the streams are printed whether or not the result has an
\* error, and nothing of the result is printed when the call raised.
C10_OutputComplete ==
    CliCommand =>
        /\ pc = "check_error" =>
              out = StreamsOutput(result) /\ pending = <<>> /\ exitCode = <<>>
        /\ pc = "leave" =>
              out = StreamsOutput(result) \o ErrorOutput(result) /\ exitCode = <<>>
        /\ pc = "returned" /\ result.sealed =>
              out = StreamsOutput(result) \o ErrorOutput(result)
        /\ pc \in {"run_raised", "except"} /\ stats.sends = 1 => out = <<>>
        /\ pc = "returned" /\ stats.sends = 1 /\ ~result.sealed =>
              out = ExceptionOutput(stats.raised)

\* a result with stdout, stderr and a remote error was printed in full
C10_AllPartsPrinted ==
    /\ CliReturned
    /\ result.stdout # <<>> /\ result.stderr # <<>>
    /\ result.hasError /\ Len(result.errorTraceback) = 2
    /\ Len(out) = 5

\* C4: when the deadline of run elapses without an idle status, run returns a
\* sealed result with hasError set, success false and a timeout indicator, and
\* raises nothing; the handler then returns exit code 1 through the result
\* branch, having printed the result's error line and no exception message.
C4_TimeoutReturned ==
    /\ pc = "run_returned" /\ result.indicator = "timeout" =>
          /\ result.sealed /\ result.hasError /\ ~Success(result)
          /\ exc = "" /\ stats.raised = ""
    /\ prog = "cli" /\ result.indicator = "timeout" =>
          /\ pc \in {"run_returned", "check_error", "leave", "returned"}
          /\ exc = "" /\ stats.raised = ""
          /\ pc = "returned" =>
                /\ exitCode = <<1>>
                /\ \E i \in 1..Len(out) : out[i] = ToStderr(<<"\nError: ", result.error>>)
                /\ \A i \in 1..Len(out) :
                      out[i].text[1] \notin {"Error: ", "Unexpected error: "}

\* a run that timed out with no remote error returned 1
C4_TimedOutRunReturned ==
    /\ CliReturned
    /\ result.indicator = "timeout" /\ result.error = "None"
    /\ exitCode = <<1>>

\* the program is past the with statement
ScopeLeft == pc \in {"returned", "raised", "except"}

\* C2: in handle_run, handle_run_file and the context-manager example, once
\* the scope has been entered and the context acquired, the context is
\* released exactly once before the handler returns, however the scope is
\* left: return 0, return 1 for a result with an error, or an exception from
\* run / run_file. It is not released while the block runs, and no final
\* state holds a context that the scope acquired and did not release.
C2_ScopedRelease ==
    prog \in ScopedPrograms =>
        /\ stats.entered <= 1 /\ stats.exited <= stats.entered
        /\ stats.destroys = stats.exited
        /\ stats.entered = 1 /\ ~ScopeLeft =>
              stats.exited = 0 /\ sessions[runner].ctx = "Active"
        /\ stats.entered = 1 /\ ScopeLeft =>
              stats.exited = 1 /\ sessions[runner].ctx = "Terminated"
        /\ prog = "cli" /\ stats.entered = 1 /\ exitCode # <<>> =>
              stats.destroys = 1 /\ sessions[runner].ctx = "Terminated"

\* run_file raised inside the scope of a run-file command, the context was
\* released once and the handler returned 1
C2_ReleasedAfterRaise ==
    /\ CliReturned /\ args.command = "run-file"
    /\ stats.entered = 1 /\ stats.sends = 1 /\ stats.raised = "ChannelError"
    /\ stats.destroys = 1 /\ sessions[runner].ctx = "Terminated"
    /\ exitCode = <<1>>

\* C3: a failure while releasing the context on leaving the scope is
\* suppressed: the exit code and the printed output of handle_run and
\* handle_run_file are those of the preceding run, 0 for a result without
\* error, 1 for a result with error or for the exception the run raised, and
\* a teardown failure never takes their place.
C3_TeardownNeverMasks ==
    prog = "cli" /\ stats.destroyFailed > 0 =>
        /\ pc \in {"returned", "except"}
        /\ exc = (IF pc = "except" THEN stats.raised ELSE "")
        /\ pc = "except" => ~result.sealed /\ stats.raised # "" /\ out = <<>>
        /\ pc = "returned" /\ result.sealed =>
              /\ stats.raised = ""
              /\ exitCode = IF result.hasError THEN <<1>> ELSE <<0>>
              /\ out = StreamsOutput(result) \o ErrorOutput(result)
        /\ pc = "returned" /\ ~result.sealed =>
              /\ stats.raised # ""
              /\ exitCode = <<1>>
              /\ out = ExceptionOutput(stats.raised)

\* destroy failed after a run without error, and the handler returned 0
C3_FailedTeardownAfterSuccess ==
    /\ CliReturned
    /\ stats.destroyFailed = 1
    /\ result.sealed /\ ~result.hasError /\ result.stdout # <<>>
    /\ exitCode = <<0>>

\* C7: stop is idempotent and never raises: a second stop, a stop after a
\* failed start, and the stop of a finally clause after start or run raised
\* all complete without raising and leave the session without an Active
\* context; at most one destroy is attempted per acquired context.
C7_StopIdempotent ==
    /\ stats.destroys <= stats.creates
    /\ stats.destroyFailed <= stats.destroys
    /\ stats.stops >= 1 => sessions[runner].ctx # "Active"
    /\ prog = "stop_twice" =>
          /\ exc = "" /\ pc # "raised"
          /\ pc = "returned" => stats.stops = 2
    /\ prog = "basic_usage" =>
          /\ exc = stats.raised
          /\ Finished => stats.stops = 1
          /\ pc = "raised" => exc # ""

\* a started session was stopped twice: one destroy, and the program went on
C7_StoppedTwice ==
    /\ prog = "stop_twice" /\ pc = "returned"
    /\ stats.stops = 2 /\ stats.creates = 1 /\ stats.destroys = 1
    /\ sessions[runner].ctx = "Terminated"

\* C9: a CLI invocation constructs at most one session and issues at most one
\* run or run_file on it; the session is released only after that call has
\* returned or raised, so a session never has two requests in flight; and no
\* session or context is shared between invocations.
C9_OneSessionOneRun ==
    prog = "cli" =>
        /\ stats.sessions <= 1 /\ stats.sends <= 1 /\ stats.inflight <= 1
        /\ stats.inflight = (IF pc = "running" THEN 1 ELSE 0)
        /\ stats.exited > 0 => stats.inflight = 0 /\ pc \notin {"call", "running"}
        /\ Cardinality({i \in 1..Len(sessions) : sessions[i].owner = inv}) = stats.sessions
        /\ (runner # 0) = (stats.sessions = 1)
        /\ runner # 0 => sessions[runner].owner = inv
        /\ \A i, j \in 1..Len(sessions) :
              sessions[i].owner = sessions[j].owner => i = j
        /\ \A i \in 1..Len(sessions) :
              sessions[i].owner < inv => ~sessions[i].chan

\* the second invocation ran its one request on a session of its own
C9_SecondInvocationRan ==
    /\ CliReturned /\ inv = 2
    /\ Len(sessions) = 2 /\ runner = 2
    /\ stats.sends = 1 /\ stats.exited = 1

====
